---- MODULE Spec2Model ----
(***************************************************************************)
(* Model of btplotting/live/datahandler.py (class LiveDataHandler).        *)
(*                                                                         *)
(* Two execution contexts share the handler object:                        *)
(*   - the worker thread (_t_thread / _process), position wpc;             *)
(*   - the consumer loop (the document's single-threaded tornado loop),    *)
(*     which runs set() and the next-tick callbacks one at a time,         *)
(*     position cpc.                                                       *)
(* update() and stop() are single attribute writes callable at any time.   *)
(*                                                                         *)
(* A DataFrame is a sequence of rows; a row is [index, val].  The frames   *)
(* are built with preserveidx=True, so the frame label of a row is its     *)
(* 'index' column value.  val stands for the other columns: a row fetched  *)
(* from the data source carries the number of update() notifications made  *)
(* so far, so that a row fetched again later differs from its older copy.  *)
(* "with self._lock" is the variable lock; code outside a with-block reads *)
(* and writes the shared fields without it.  A step of a thread makes at   *)
(* most one access to a field the other thread writes: an expression that  *)
(* reads self._datastore twice, or a call whose result is then stored in   *)
(* self._cb_add, is two steps, with the value in between held in a local.  *)
(***************************************************************************)
EXTENDS Integers, Sequences, FiniteSets, TLC

\* ---------------------------------------------------------------- bounds
Lookback == 1        \* constructor argument lookback
MaxIdx == 2          \* number of rows the data source ever holds
MaxCalls == 2        \* number of update() and set() calls in a run
LiveMaxCalls == 2    \* the same limit for the runs of FairSpec

NoIdx == 0 - 1
NoHandle == 0

Indices == 1..MaxIdx

VARIABLES
    srcLen,      \* data source: it held the rows 1..srcLen when it was last read
    datastore,   \* self._datastore
    last_idx,    \* self._last_idx
    new_data,    \* self._new_data
    running,     \* self._running
    lock,        \* self._lock: "free", "worker" or "consumer"
    patches,     \* self._patches
    cb_add,      \* self._cb_add
    cb_patch,    \* self._cb_patch
    pending,     \* the document's next-tick callbacks, in scheduling order
    wpc,         \* worker thread: position in _t_thread / _process
    rows,        \* worker thread: rows of the current cycle still to process
    ds_idx,      \* worker thread: local ds_idx of _process
    wdf,         \* worker thread: frame read as the operand of .loc, line 158
    wcb,         \* worker thread: callback object held inside _push_adds
    cpc,         \* consumer loop: position
    update_df,   \* consumer loop: local update_df of _cb_push_adds
    cpatches,    \* consumer loop: local patches of _cb_push_patches
    ccb,         \* consumer loop: callback object held inside _push_adds
    calias,      \* consumer loop: update_df is the object bound to self._datastore
    cmask,       \* consumer loop: labels of self._datastore['index'] read for the
                 \* mask of line 70
    p_data,      \* consumer loop: local p_data of _cb_push_patches is not empty
    s_data,      \* consumer loop: local s_data of _cb_push_patches is not empty
    sink,        \* last call made on the figurepage's ColumnDataSource
    delivered,   \* history: per index, streams by _cb_push_adds since the last replace
    seen,        \* history: indices filled initially or written to the store by the worker
    pure,        \* history: no set() and no UPDATE classification so far
    unserved,    \* history: an update() call not yet followed by the start of a pull
    owed,        \* history: rows appended to _patches that no flush has yet passed
                 \* to the figurepage (get_cds_patchdata_from_series)
    nUpdates,    \* number of update() calls so far
    nSets,       \* number of set() calls so far
    limit        \* number of update() and set() calls the run may make

vars == <<srcLen, datastore, last_idx, new_data, running, lock, patches,
          cb_add, cb_patch, pending, wpc, rows, ds_idx, wdf, wcb, cpc,
          update_df, cpatches, ccb, calias, cmask, p_data, s_data, sink,
          delivered,
          seen, pure, unserved, owed,
          nUpdates, nSets, limit>>

shared == <<datastore, last_idx, lock, patches>>
wlocals == <<rows, ds_idx, wdf, wcb>>
clocals == <<update_df, cpatches, ccb, calias, cmask, p_data, s_data>>
sched == <<cb_add, cb_patch, pending>>
flags == <<new_data, running>>
hist == <<delivered, seen, pure, unserved, owed>>
env == <<srcLen, nUpdates, nSets, limit>>

\* ------------------------------------------------------- frames and rows
Row(i, v) == [index |-> i, val |-> v]

Min(a, b) == IF a < b THEN a ELSE b

Max(a, b) == IF a > b THEN a ELSE b

IndexCol(df) == [k \in 1..Len(df) |-> df[k].index]

IndexSet(df) == {df[k].index : k \in 1..Len(df)}

\* fault variant of RowsAfter: the rows are not filtered
RowsAll(df, bound) == df

\* df[df['index'] > bound]
RowsAfter(df, bound) == SelectSeq(df, LAMBDA r : r.index > bound)

\* df.tail(n)
TailN(df, n) == SubSeq(df, Len(df) - n + 1, Len(df))

\* the frame with one row per index lo..hi, all with contents v
RangeFrame(lo, hi, v) == [k \in 1..Max(hi - lo + 1, 0) |-> Row(lo + k - 1, v)]

\* data source holding n rows, initial fetch: the last `back` rows
FetchInitial(n, back, v) == RangeFrame(Max(1, n - back + 1), n, v)

\* data source holding n rows, incremental fetch: the rows newer than start,
\* in ascending order
FetchSince(n, start, v) == RangeFrame(Max(1, start + 1), n, v)

\* min(self._lookback, self._datastore.shape[0])
get_data_stream_length(df) == Min(Lookback, Len(df))

\* get_last_idx()
get_last_idx(df) == IF Len(df) > 0 THEN df[Len(df)].index ELSE NoIdx

\* self._datastore.shape[0] > 0 and idx in self._datastore['index']
IsPresent(df, idx) == Len(df) > 0 /\ idx \in IndexSet(df)

\* self._datastore.at[ds_idx] = row: the rows labelled ds_idx are overwritten;
\* a label that is not in the frame enlarges it by one row
AtPut(df, lbl, row) ==
    IF lbl \in IndexSet(df)
    THEN [k \in 1..Len(df) |-> IF df[k].index = lbl THEN row ELSE df[k]]
    ELSE Append(df, row)

\* the labels of a frame are unique
UniqueLabels(df) == Cardinality(IndexSet(df)) = Len(df)

\* f[mask] and f.loc[mask] with a boolean mask that carries the labels ml,
\* for a frame with the labels fl: the mask is used as it is when the labels
\* are the same; otherwise it is reindexed to the labels of the frame, which
\* raises when the mask has duplicate labels or lacks a label of the frame
MaskAligns(fl, ml) ==
    \/ fl = ml
    \/ /\ Cardinality({ml[k] : k \in 1..Len(ml)}) = Len(ml)
       /\ {fl[k] : k \in 1..Len(fl)} \subseteq {ml[k] : k \in 1..Len(ml)}

\* the same for a mask computed on the index column of the frame m
Alignable(f, m) == MaskAligns(IndexCol(f), IndexCol(m))

\* ------------------------------------------------------------ scheduling
Handle(h, kind) == [h |-> h, kind |-> kind]

UsedHandles ==
    {pending[k].h : k \in 1..Len(pending)} \cup {cb_add, cb_patch, wcb, ccb}

\* identity of the object returned by add_next_tick_callback
FreshHandle == CHOOSE h \in 1..(Cardinality(UsedHandles) + 1) : h \notin UsedHandles

\* doc.remove_next_tick_callback(h); the ValueError of a handle that is not
\* scheduled (None, already run, already removed) is swallowed by the caller
RemoveCallback(q, h) == SelectSeq(q, LAMBDA e : e.h # h)

\* doc.add_next_tick_callback(cb)
AddCallback(q, h, kind) == Append(q, Handle(h, kind))

\* ------------------------------------------------------------------ sink
\* a call on the ColumnDataSources: seq flips at every call
SinkCall(kind) == [seq |-> 1 - sink.seq, kind |-> kind]

Bump(d, df) == [i \in Indices |-> IF i \in IndexSet(df) THEN Min(d[i] + 1, 2) ELSE d[i]]

NoneDelivered == [i \in Indices |-> 0]

\* ------------------------------------------------------------------ Init
\* __init__: fields, then _fill(), then the thread is started
InitWith(lim) ==
    /\ limit = lim
    /\ srcLen \in 0..MaxIdx
    /\ datastore = FetchInitial(srcLen, Lookback, 0)
    /\ last_idx = get_last_idx(datastore)
    /\ new_data = FALSE
    /\ running = TRUE
    /\ lock = "free"
    /\ patches = <<>>
    /\ cb_add = NoHandle
    /\ cb_patch = NoHandle
    /\ pending = <<>>
    /\ wpc = "loop"
    /\ rows = <<>>
    /\ ds_idx = NoIdx
    /\ wdf = <<>>
    /\ wcb = NoHandle
    /\ cpc = "idle"
    /\ update_df = <<>>
    /\ cpatches = <<>>
    /\ ccb = NoHandle
    /\ calias = FALSE
    /\ cmask = <<>>
    /\ p_data = FALSE
    /\ s_data = FALSE
    /\ sink = [seq |-> 0, kind |-> "schema"]
    /\ delivered = NoneDelivered
    /\ seen = IndexSet(datastore)
    /\ pure = TRUE
    /\ unserved = FALSE
    /\ owed = <<>>
    /\ nUpdates = 0
    /\ nSets = 0

Init == InitWith(MaxCalls)

FairInit == InitWith(LiveMaxCalls)

\* ----------------------------------------------------------- environment
\* the data source only grows: when it is read it holds at least the rows it
\* held at the previous read
Grown(n) == n..MaxIdx

\* update()
Update ==
    /\ nUpdates + nSets < limit
    /\ nUpdates' = nUpdates + 1
    /\ new_data' = TRUE
    /\ unserved' = TRUE
    /\ UNCHANGED <<shared, sched, running, wpc, wlocals, cpc, clocals, sink,
                   delivered, seen, pure, owed, srcLen, nSets, limit>>

\* stop(): join(0) returns at once
Stop ==
    /\ running
    /\ running' = FALSE
    /\ UNCHANGED <<shared, sched, new_data, wpc, wlocals, cpc, clocals, sink,
                   hist, env>>

\* ---------------------------------------------------------- worker thread
\* fault variant of WLoop: the loop condition does not read _running
WLoopForever ==
    /\ wpc = "loop"
    /\ wpc' = "chk_new"
    /\ UNCHANGED <<shared, sched, flags, wlocals, cpc, clocals, sink, hist,
                   env>>

\* while self._running:
WLoop ==
    /\ wpc = "loop"
    /\ wpc' = IF running THEN "chk_new" ELSE "done"
    /\ UNCHANGED <<shared, sched, flags, wlocals, cpc, clocals, sink, hist,
                   env>>

\* if self._new_data: ... ; time.sleep(self._timeout)
WCheckNew ==
    /\ wpc = "chk_new"
    /\ wpc' = IF new_data THEN "pull" ELSE "loop"
    /\ UNCHANGED <<shared, sched, flags, wlocals, cpc, clocals, sink, hist,
                   env>>

\* data = self._app.generate_data(start=self._last_idx, preserveidx=True)
WPull ==
    /\ wpc = "pull"
    /\ \E n \in Grown(srcLen) :
         /\ srcLen' = n
         /\ rows' = FetchSince(n, last_idx, nUpdates)
    /\ unserved' = FALSE
    /\ wpc' = "clear"
    /\ UNCHANGED <<shared, sched, flags, ds_idx, wdf, wcb, cpc, clocals, sink,
                   delivered, seen, pure, owed, nUpdates, nSets, limit>>

\* generate_data raises: nothing in _t_thread catches the exception and the
\* thread ends; _new_data is not cleared, no row is processed
WPullFails ==
    /\ wpc = "pull"
    /\ wpc' = "crashed"
    /\ UNCHANGED <<shared, sched, flags, wlocals, cpc, clocals, sink, hist,
                   env>>

\* self._new_data = False
WClear ==
    /\ wpc = "clear"
    /\ new_data' = FALSE
    /\ wpc' = "proc"
    /\ UNCHANGED <<shared, sched, running, wlocals, cpc, clocals, sink, hist,
                   env>>

\* _process: next row of the loop and its classification (no lock held);
\* after the last row the thread sleeps
WClassify ==
    /\ wpc = "proc"
    /\ IF rows = <<>>
       THEN /\ wpc' = "loop"
            /\ pure' = pure
       ELSE /\ wpc' = IF IsPresent(datastore, Head(rows).index)
                      THEN "upd_find" ELSE "add_append"
            /\ pure' = (pure /\ ~IsPresent(datastore, Head(rows).index))
    /\ UNCHANGED <<shared, sched, flags, wlocals, cpc, clocals, sink,
                   delivered, seen, unserved, owed, env>>

\* ds_idx = self._datastore.loc[...: the frame that .loc will index is read
\* (no lock held)
WFindRead ==
    /\ wpc = "upd_find"
    /\ wdf' = datastore
    /\ wpc' = "upd_mask"
    /\ UNCHANGED <<shared, sched, flags, rows, ds_idx, wcb, cpc, clocals, sink,
                   hist, env>>

\* ...loc[self._datastore['index'] == idx].index[0]: the store is read again
\* for the mask (no lock held); a mask that cannot be aligned with the frame
\* read first raises, an empty selection raises IndexError, and either ends
\* the thread
WFind ==
    /\ wpc = "upd_mask"
    /\ IF Alignable(wdf, datastore) /\ Head(rows).index \in IndexSet(wdf)
       THEN /\ ds_idx' = Head(rows).index
            /\ wpc' = "upd_write"
       ELSE /\ ds_idx' = ds_idx
            /\ wpc' = "crashed"
    /\ wdf' = <<>>
    /\ UNCHANGED <<shared, sched, flags, rows, wcb, cpc, clocals, sink, hist,
                   env>>

\* with self._lock: self._datastore.at[ds_idx] = row; the frame is changed in
\* place, so a callback that holds the same object sees the new row
WWrite ==
    /\ wpc = "upd_write"
    /\ lock = "free"
    /\ datastore' = AtPut(datastore, ds_idx, Head(rows))
    /\ update_df' = IF calias THEN datastore' ELSE update_df
    /\ seen' = seen \cup {Head(rows).index}
    /\ wpc' = "upd_enq"
    /\ UNCHANGED <<last_idx, lock, patches, sched, flags, wlocals, cpc,
                   cpatches, ccb, calias, cmask, p_data, s_data, sink,
                   delivered, pure, unserved, owed, env>>

\* self._patches.append(row)
WEnqueue ==
    /\ wpc = "upd_enq"
    /\ patches' = Append(patches, Head(rows))
    /\ owed' = Append(owed, Head(rows))
    /\ wpc' = "push_patches"
    /\ UNCHANGED <<datastore, last_idx, lock, sched, flags, wlocals, cpc,
                   clocals, sink, delivered, seen, pure, unserved, env>>

\* _push_patches: doc.remove_next_tick_callback(self._cb_patch); _cb_patch is
\* only touched by this thread
WPatchesRemove ==
    /\ wpc = "push_patches"
    /\ pending' = RemoveCallback(pending, cb_patch)
    /\ wpc' = "patches_add"
    /\ UNCHANGED <<shared, cb_add, cb_patch, flags, wlocals, cpc, clocals,
                   sink, hist, env>>

\* _push_patches: self._cb_patch = doc.add_next_tick_callback(...)
WPushPatches ==
    /\ wpc = "patches_add"
    /\ LET h == FreshHandle
       IN /\ pending' = AddCallback(pending, h, "patch")
          /\ cb_patch' = h
    /\ rows' = Tail(rows)
    /\ wpc' = "proc"
    /\ UNCHANGED <<shared, cb_add, flags, ds_idx, wdf, wcb, cpc, clocals, sink,
                   hist, env>>

\* with self._lock: self._datastore = self._datastore.append(row); the store
\* is bound to a new frame
WAppend ==
    /\ wpc = "add_append"
    /\ lock = "free"
    /\ lock' = "worker"
    /\ datastore' = Append(datastore, Head(rows))
    /\ calias' = FALSE
    /\ seen' = seen \cup {Head(rows).index}
    /\ wpc' = "add_tail"
    /\ UNCHANGED <<last_idx, patches, sched, flags, wlocals, cpc, update_df,
                   cpatches, ccb, cmask, p_data, s_data, sink, delivered, pure,
                   unserved, owed, env>>

\* fault variant of WTail: the worker streams to the sink itself
WTailStreams ==
    /\ wpc = "add_tail"
    /\ datastore' = TailN(datastore, get_data_stream_length(datastore))
    /\ calias' = FALSE
    /\ lock' = "free"
    /\ sink' = SinkCall("stream")
    /\ wpc' = "adds_read"
    /\ UNCHANGED <<last_idx, patches, sched, flags, wlocals, cpc, update_df,
                   cpatches, ccb, cmask, p_data, s_data, hist, env>>

\* self._datastore = self._datastore.tail(self._get_data_stream_length());
\* end of the with-block
WTail ==
    /\ wpc = "add_tail"
    /\ datastore' = TailN(datastore, get_data_stream_length(datastore))
    /\ calias' = FALSE
    /\ lock' = "free"
    /\ wpc' = "adds_read"
    /\ UNCHANGED <<last_idx, patches, sched, flags, wlocals, cpc, update_df,
                   cpatches, ccb, cmask, p_data, s_data, sink, hist, env>>

\* _push_adds: self._cb_add is read as the argument of the remove call
WAddsRead ==
    /\ wpc = "adds_read"
    /\ wcb' = cb_add
    /\ wpc' = "adds_remove"
    /\ UNCHANGED <<shared, sched, flags, rows, ds_idx, wdf, cpc, clocals, sink,
                   hist, env>>

\* _push_adds: doc.remove_next_tick_callback(...)
WAddsRemove ==
    /\ wpc = "adds_remove"
    /\ pending' = RemoveCallback(pending, wcb)
    /\ wpc' = "adds_add"
    /\ UNCHANGED <<shared, cb_add, cb_patch, flags, wlocals, cpc, clocals,
                   sink, hist, env>>

\* _push_adds: doc.add_next_tick_callback(self._cb_push_adds) returns
WAddsAdd ==
    /\ wpc = "adds_add"
    /\ wcb' = FreshHandle
    /\ pending' = AddCallback(pending, FreshHandle, "add")
    /\ wpc' = "adds_store"
    /\ UNCHANGED <<shared, cb_add, cb_patch, flags, rows, ds_idx, wdf, cpc,
                   clocals, sink, hist, env>>

\* _push_adds: self._cb_add = <the returned callback object>
WAddsStore ==
    /\ wpc = "adds_store"
    /\ cb_add' = wcb
    /\ wcb' = NoHandle
    /\ rows' = Tail(rows)
    /\ wpc' = "proc"
    /\ UNCHANGED <<shared, cb_patch, pending, flags, ds_idx, wdf, cpc, clocals,
                   sink, hist, env>>

Worker ==
    \/ WLoop \/ WCheckNew \/ WPull \/ WPullFails \/ WClear \/ WClassify
    \/ WFindRead \/ WFind \/ WWrite \/ WEnqueue \/ WPatchesRemove \/ WPushPatches
    \/ WAppend \/ WTail \/ WAddsRead \/ WAddsRemove \/ WAddsAdd \/ WAddsStore

\* ---------------------------------------------------------- consumer loop
\* the frames a caller hands to set(): runs lo..hi of the rows of the data
\* source, possibly empty
SetFrames(n) == {RangeFrame(lo, hi, 0) : lo \in Indices, hi \in 0..n}

\* set(df): with self._lock: self._datastore = df
SetStore ==
    /\ cpc = "idle"
    /\ nUpdates + nSets < limit
    /\ lock = "free"
    /\ \E n \in Grown(srcLen) :
         /\ srcLen' = n
         /\ \E df \in SetFrames(n) : datastore' = df
    /\ lock' = "consumer"
    /\ nSets' = nSets + 1
    /\ pure' = FALSE
    /\ cpc' = "set_reset"
    /\ UNCHANGED <<last_idx, patches, sched, flags, wpc, wlocals, clocals,
                   sink, delivered, seen, unserved, owed, nUpdates, limit>>

\* fault variant of SetReset: _last_idx is left as it is
SetResetKeeps ==
    /\ cpc = "set_reset"
    /\ last_idx' = last_idx
    /\ lock' = "free"
    /\ delivered' = NoneDelivered
    /\ cpc' = "set_read"
    /\ UNCHANGED <<datastore, patches, sched, flags, wpc, wlocals, clocals,
                   sink, seen, pure, unserved, owed, env>>

\* set(df): self._last_idx = -1; end of the with-block
SetReset ==
    /\ cpc = "set_reset"
    /\ last_idx' = NoIdx
    /\ lock' = "free"
    /\ delivered' = NoneDelivered
    /\ cpc' = "set_read"
    /\ UNCHANGED <<datastore, patches, sched, flags, wpc, wlocals, clocals,
                   sink, seen, pure, unserved, owed, env>>

\* set -> _push_adds: self._cb_add is read as the argument of the remove call
SetAddsRead ==
    /\ cpc = "set_read"
    /\ ccb' = cb_add
    /\ cpc' = "set_remove"
    /\ UNCHANGED <<shared, sched, flags, wpc, wlocals, update_df, cpatches,
                   calias, cmask, p_data, s_data, sink, hist, env>>

\* set -> _push_adds: doc.remove_next_tick_callback(...)
SetAddsRemove ==
    /\ cpc = "set_remove"
    /\ pending' = RemoveCallback(pending, ccb)
    /\ cpc' = "set_add"
    /\ UNCHANGED <<shared, cb_add, cb_patch, flags, wpc, wlocals, clocals,
                   sink, hist, env>>

\* set -> _push_adds: doc.add_next_tick_callback(self._cb_push_adds) returns
SetAddsAdd ==
    /\ cpc = "set_add"
    /\ ccb' = FreshHandle
    /\ pending' = AddCallback(pending, FreshHandle, "add")
    /\ cpc' = "set_store"
    /\ UNCHANGED <<shared, cb_add, cb_patch, flags, wpc, wlocals, update_df,
                   cpatches, calias, cmask, p_data, s_data, sink, hist, env>>

\* set -> _push_adds: self._cb_add = <the returned callback object>
SetAddsStore ==
    /\ cpc = "set_store"
    /\ cb_add' = ccb
    /\ ccb' = NoHandle
    /\ cpc' = "idle"
    /\ UNCHANGED <<shared, cb_patch, pending, flags, wpc, wlocals, update_df,
                   cpatches, calias, cmask, p_data, s_data, sink, hist, env>>

\* the loop takes the oldest next-tick callback and starts it
RunCallback ==
    /\ cpc = "idle"
    /\ pending # <<>>
    /\ pending' = Tail(pending)
    /\ cpc' = IF Head(pending).kind = "add" THEN "cb_add" ELSE "cb_patch"
    /\ UNCHANGED <<shared, cb_add, cb_patch, flags, wpc, wlocals, clocals,
                   sink, hist, env>>

\* _cb_push_adds, line 70: self._datastore is read as the frame to index
CbAddsRead ==
    /\ cpc = "cb_add"
    /\ update_df' = datastore
    /\ calias' = TRUE
    /\ cpc' = "cb_add_index"
    /\ UNCHANGED <<shared, sched, flags, wpc, wlocals, cpatches, ccb, cmask,
                   p_data, s_data, sink, hist, env>>

\* _cb_push_adds, line 70: self._datastore is read again and its column
\* ['index'] taken: a series of its own, with the labels the store has now
CbAddsMask ==
    /\ cpc = "cb_add_index"
    /\ cmask' = IndexCol(datastore)
    /\ cpc' = "cb_add_mask"
    /\ UNCHANGED <<shared, sched, flags, wpc, wlocals, update_df, cpatches,
                   ccb, calias, p_data, s_data, sink, hist, env>>

\* fault variant of CbAddsSelect: the empty frame is streamed before returning
CbAddsSelectStreamsEmpty ==
    /\ cpc = "cb_add_mask"
    /\ IF MaskAligns(IndexCol(update_df), cmask)
       THEN /\ update_df' = RowsAfter(update_df, last_idx)
            /\ cpc' = IF update_df' = <<>> THEN "idle" ELSE "cb_add_mark"
            /\ sink' = IF update_df' = <<>> THEN SinkCall("stream") ELSE sink
       ELSE /\ update_df' = <<>>
            /\ cpc' = "idle"
            /\ sink' = sink
    /\ calias' = FALSE
    /\ cmask' = <<>>
    /\ UNCHANGED <<shared, sched, flags, wpc, wlocals, cpatches, ccb, p_data,
                   s_data, hist, env>>

\* _cb_push_adds, line 70: the series is compared with self._last_idx (a field
\* only this loop writes) and the frame read first, as it is now, is indexed
\* with the mask; a mask that cannot be aligned with the frame raises and
\* the callback ends; if update_df.shape[0] == 0: return
CbAddsSelect ==
    /\ cpc = "cb_add_mask"
    /\ IF MaskAligns(IndexCol(update_df), cmask)
       THEN /\ update_df' = RowsAfter(update_df, last_idx)
            /\ cpc' = IF update_df' = <<>> THEN "idle" ELSE "cb_add_mark"
       ELSE /\ update_df' = <<>>
            /\ cpc' = "idle"
    /\ calias' = FALSE
    /\ cmask' = <<>>
    /\ UNCHANGED <<shared, sched, flags, wpc, wlocals, cpatches, ccb, p_data,
                   s_data, sink, hist, env>>

\* _cb_push_adds: self._last_idx = update_df['index'].iloc[-1]
CbAddsMark ==
    /\ cpc = "cb_add_mark"
    /\ last_idx' = update_df[Len(update_df)].index
    /\ cpc' = "cb_add_stream"
    /\ UNCHANGED <<datastore, lock, patches, sched, flags, wpc, wlocals,
                   clocals, sink, hist, env>>

\* _cb_push_adds: fp.cds.stream(data, self._get_data_stream_length())
CbAddsStream ==
    /\ cpc = "cb_add_stream"
    /\ sink' = SinkCall("stream")
    /\ delivered' = Bump(delivered, update_df)
    /\ update_df' = <<>>
    /\ cpc' = "idle"
    /\ UNCHANGED <<shared, sched, flags, wpc, wlocals, cpatches, ccb, calias,
                   cmask, p_data, s_data, seen, pure, unserved, owed, env>>

\* fault variant of CbPatchesPop: pop() takes the newest row instead of the
\* oldest
CbPatchesPopLast ==
    /\ cpc = "cb_patch"
    /\ patches # <<>>
    /\ cpatches' = Append(cpatches, patches[Len(patches)])
    /\ patches' = SubSeq(patches, 1, Len(patches) - 1)
    /\ UNCHANGED <<datastore, last_idx, lock, sched, flags, wpc, wlocals, cpc,
                   update_df, ccb, calias, cmask, p_data, s_data, sink, hist,
                   env>>

\* _cb_push_patches: while len(self._patches) > 0:
\*                       patches.append(self._patches.pop(0))
CbPatchesPop ==
    /\ cpc = "cb_patch"
    /\ patches # <<>>
    /\ cpatches' = Append(cpatches, Head(patches))
    /\ patches' = Tail(patches)
    /\ UNCHANGED <<datastore, last_idx, lock, sched, flags, wpc, wlocals, cpc,
                   update_df, ccb, calias, cmask, p_data, s_data, sink, hist,
                   env>>

\* _cb_push_patches: the while loop ends; if len(patches) == 0: return
CbPatchesCheck ==
    /\ cpc = "cb_patch"
    /\ patches = <<>>
    /\ cpc' = IF cpatches = <<>> THEN "idle" ELSE "cb_patch_row"
    /\ UNCHANGED <<shared, sched, flags, wpc, wlocals, clocals, sink, hist,
                   env>>

\* _cb_push_patches, for patch in patches: the next row is passed to
\* fp.get_cds_patchdata_from_series, which returns (p_data, s_data); which
\* of the two is empty is the figurepage's decision
CbPatchesRow ==
    /\ cpc = "cb_patch_row"
    /\ p_data' \in BOOLEAN
    /\ s_data' \in BOOLEAN
    /\ cpatches' = Tail(cpatches)
    /\ owed' = Tail(owed)
    /\ cpc' = "cb_patch_patch"
    /\ UNCHANGED <<shared, sched, flags, wpc, wlocals, update_df, ccb, calias,
                   cmask, sink, delivered, seen, pure, unserved, env>>

\* _cb_push_patches: if len(p_data) > 0: fp.cds.patch(p_data)
CbPatchesPatch ==
    /\ cpc = "cb_patch_patch"
    /\ sink' = IF p_data THEN SinkCall("patch") ELSE sink
    /\ p_data' = FALSE
    /\ cpc' = "cb_patch_stream"
    /\ UNCHANGED <<shared, sched, flags, wpc, wlocals, update_df, cpatches,
                   ccb, calias, cmask, s_data, hist, env>>

\* _cb_push_patches: if len(s_data) > 0: fp.cds.stream(s_data, ...), the same
\* for the figures; then the next row of the for loop, or the end of the
\* callback
CbPatchesStream ==
    /\ cpc = "cb_patch_stream"
    /\ sink' = IF s_data THEN SinkCall("stream") ELSE sink
    /\ s_data' = FALSE
    /\ cpc' = IF cpatches = <<>> THEN "idle" ELSE "cb_patch_row"
    /\ UNCHANGED <<shared, sched, flags, wpc, wlocals, update_df, cpatches,
                   ccb, calias, cmask, p_data, hist, env>>

Consumer ==
    \/ SetStore \/ SetReset \/ SetAddsRead \/ SetAddsRemove \/ SetAddsAdd
    \/ SetAddsStore \/ RunCallback \/ CbAddsRead \/ CbAddsMask \/ CbAddsSelect
    \/ CbAddsMark
    \/ CbAddsStream \/ CbPatchesPop \/ CbPatchesCheck \/ CbPatchesRow
    \/ CbPatchesPatch
    \/ CbPatchesStream

Next == Update \/ Stop \/ Worker \/ Consumer

Spec == Init /\ [][Next]_vars

\* fair scheduling: the worker thread keeps taking steps whenever it can, and
\* the consumer thread leaves the with-block of set() once it has entered it
FairSpec == FairInit /\ [][Next]_vars /\ WF_vars(Worker) /\ WF_vars(SetReset)

\* ---------------------------------------------------------------- claims
\* the elements of a set of integers in ascending order
Ascending(S) ==
    CHOOSE q \in [1..Cardinality(S) -> S] :
        \A a, b \in 1..Cardinality(S) : a < b => q[a] < q[b]

MaxOf(S) == CHOOSE m \in S : \A x \in S : x <= m

WorkerExited == wpc \in {"done", "crashed"}

\* C1: between two replaces (initial fill or set) no row index is streamed by
\* _cb_push_adds more than once.
C1_NoRowStreamedTwice == \A i \in Indices : delivered[i] <= 1

\* C2: as long as no set() ran and every processed row was an append, after
\* each completed append the store holds at most lookback rows and they are
\* the lookback highest indices seen so far, in ascending order.
C2_WindowIsNewestRows ==
    (pure /\ wpc # "add_tail") =>
        /\ Len(datastore) <= Lookback
        /\ IndexCol(datastore) = TailN(Ascending(seen), Min(Lookback, Cardinality(seen)))

\* C3: no two rows of the store share an index.
C3_UniqueIndex == Cardinality(IndexSet(datastore)) = Len(datastore)

\* C4: when the loop starts a flush callback, no other callback of the same
\* kind is still scheduled: the requests made before this tick were coalesced
\* into one execution.
C4_OneRunPerBurst ==
    [][(cpc = "idle" /\ cpc' \in {"cb_add", "cb_patch"}) =>
          \A k \in 2..Len(pending) : pending[k].kind # pending[1].kind]_vars

\* C5: an append-flush delivers rows newer than the last delivered position and
\* then the last delivered position is the greatest index it delivered.
C5_AdvancesToGreatest ==
    /\ cpc = "cb_add_mark" => \A i \in IndexSet(update_df) : i > last_idx
    /\ cpc = "cb_add_stream" => last_idx = MaxOf(IndexSet(update_df))

\* C6: _last_idx never decreases, except in the step of set() that resets it.
C6_LastIdxMonotone ==
    [][last_idx' >= last_idx \/ (cpc = "set_reset" /\ last_idx' = NoIdx)]_vars

C6_Witness == sink.kind = "stream" /\ nSets = 1 /\ cpc = "cb_add_stream" /\ last_idx >= 1

\* C7: _cb_push_adds run when no row of the frame it read is newer than _last_idx returns
\* without a sink call and leaves _last_idx and the store unchanged.
C7_EmptyFlushIsNoOp ==
    [][(cpc = "cb_add_mask" /\ cpc' # cpc /\ RowsAfter(update_df, last_idx) = <<>>) =>
          (sink' = sink /\ last_idx' = last_idx /\ datastore' = datastore
           /\ cpc' = "idle")]_vars

C7_Witness ==
    /\ cpc = "cb_add_mask"
    /\ sink.kind = "stream"
    /\ update_df # <<>>
    /\ MaskAligns(IndexCol(update_df), cmask)
    /\ RowsAfter(update_df, last_idx) = <<>>

\* C8: whenever no with-block is being executed the store holds at most
\* lookback rows, also after set() was given more rows than lookback.
C8_SizeBounded == lock = "free" => Len(datastore) <= Lookback

\* C9: no update() is lost: while the handler runs, a notification that no
\* pull has started after is still signalled to the worker (or the worker is
\* about to pull).
C9_NoUpdateLost == (running /\ unserved) => (new_data \/ wpc = "pull")

\* C10: after stop() the worker loop exits; stop() can be called whatever the
\* worker does; once _running is False the worker starts no further cycle, so
\* flush requests come only from the cycle that was in progress.
C10_StopEndsWorker ==
    /\ (~running) ~> WorkerExited
    /\ [][(~running /\ wpc = "loop") => wpc' \in {"loop", "done"}]_vars
    /\ [][WorkerExited => wpc' = wpc]_vars
    /\ [](running => ENABLED Stop)

C10_Witness == ~running /\ wpc = "done" /\ nSets = 0 /\ pending # <<>>

\* C11: the rows an append-flush hands to the sink are in strictly ascending
\* index order.
C11_FlushAscending ==
    cpc = "cb_add_stream" =>
        \A a, b \in 1..Len(update_df) :
            a < b => update_df[a].index < update_df[b].index

\* C12 as stated: the initial fill and every set() leave _last_idx at -1.
C12_EveryReplaceResets ==
    /\ last_idx = NoIdx
    /\ [][(cpc = "set_reset" /\ cpc' # cpc) => last_idx' = NoIdx]_vars

\* C12, amended: every set() leaves _last_idx at -1, so that the flush it
\* requests selects the whole store; the initial fill leaves _last_idx at the
\* index of the last filled row (-1 only when the fill was empty), and a flush
\* right after the fill selects nothing of it.
C12_SetResetsFillMarks ==
    /\ last_idx = get_last_idx(datastore)
    /\ RowsAfter(datastore, last_idx) = <<>>
    /\ [][(cpc = "set_reset" /\ cpc' # cpc) =>
            (last_idx' = NoIdx /\ RowsAfter(datastore', last_idx') = datastore')]_vars

C12_Witness == cpc = "set_read" /\ last_idx = NoIdx /\ datastore # <<>> /\ sink.kind = "stream"

\* set_cds_columns_from_df is called by _fill only, so the sink has been given
\* the columns of the current store content only while no set() replaced it
SchemaApplied == nSets = 0

\* C13: a flush streams or patches to the sink only after the sink was given
\* the column schema of the content that the last replace (fill or set) put
\* into the store.
C13_SchemaBeforeDelivery ==
    [][sink' # sink => SchemaApplied]_vars

\* C14: a pull that fails sends the worker back to its loop with the store,
\* the correction list and the position unchanged; it does not end the thread.
C14_FetchFailureDropsCycle ==
    [][(wpc = "pull" /\ wpc' \notin {"pull", "clear"}) =>
          (wpc' = "loop" /\ UNCHANGED <<datastore, patches, last_idx>>)]_vars

\* number of scheduled next-tick callbacks of a kind
PendingOf(kind) == Cardinality({k \in 1..Len(pending) : pending[k].kind = kind})

\* C15: at most one append-flush callback and at most one correction-flush
\* callback are scheduled at any time.
C15_OnePendingPerKind == PendingOf("add") <= 1 /\ PendingOf("patch") <= 1

\* C16: the corrections enqueued by the worker and not yet passed by a flush
\* to the figurepage are exactly the rows of the callback's local list
\* followed by the rows of _patches, in the order of enqueuing: the flush
\* takes the oldest outstanding corrections, each once, and none is dropped;
\* while a correction waits in _patches a correction-flush is scheduled or
\* running (or the worker is about to request it); and the patch and stream
\* data the figurepage returns for a row are sent to the sink by that flush.
C16_CorrectionsFifoOnce ==
    /\ [](owed = cpatches \o patches)
    /\ []((patches # <<>> /\ wpc \notin {"push_patches", "patches_add"}) =>
              (PendingOf("patch") >= 1 \/ cpc = "cb_patch"))
    /\ [][(cpc = "cb_patch_patch" /\ cpc' # cpc /\ p_data) =>
              sink' = [seq |-> 1 - sink.seq, kind |-> "patch"]]_vars
    /\ [][(cpc = "cb_patch_stream" /\ cpc' # cpc /\ s_data) =>
              sink' = [seq |-> 1 - sink.seq, kind |-> "stream"]]_vars

C16_Witness ==
    /\ cpc = "cb_patch"
    /\ cpatches # <<>>
    /\ patches # <<>>
    /\ wpc = "push_patches"

\* C17: the payload read of _cb_push_adds and the presence check and label
\* lookup of _process are made under the mutex, hence never while the other
\* context is inside a with-block.
C17_AccessUnderLock ==
    [][/\ (cpc \in {"cb_add", "cb_add_index"} /\ cpc' # cpc) => lock = "free"
       /\ (wpc = "proc" /\ rows # <<>> /\ wpc' # wpc) => lock = "free"
       /\ (wpc \in {"upd_find", "upd_mask"} /\ wpc' # wpc) => lock = "free"]_vars

\* C18: a pull returns only rows newer than every row the worker has already
\* written to the store (as long as no set() replaced the store).
C18_PullsOnlyNewerRows ==
    (nSets = 0 /\ wpc = "clear") =>
        \A i \in IndexSet(rows) : \A j \in seen : i > j

\* C19: the frame an append-flush streams has at most
\* min(lookback, store size) rows.
C19_PayloadBounded ==
    cpc = "cb_add_stream" => Len(update_df) <= get_data_stream_length(datastore)

\* C20: the sink is called only by a step of a flush callback on the consumer
\* loop; a step of the worker thread leaves the sink, the position and the
\* callback's locals alone and changes only the store (also seen through a
\* frame object the callback holds), the correction list and the scheduled
\* callbacks.
C20_WorkerNeverCallsSink ==
    /\ [][sink' # sink =>
             (cpc \in {"cb_add_stream", "cb_patch_patch", "cb_patch_stream"}
              /\ cpc' # cpc /\ wpc' = wpc /\ rows' = rows)]_vars
    /\ [][(wpc' # wpc \/ rows' # rows) =>
             (UNCHANGED <<sink, last_idx, cpc, cpatches>>
              /\ (update_df' = update_df \/ (calias /\ update_df' = datastore')))]_vars

C20_Witness ==
    /\ sink.kind = "stream"
    /\ wpc = "adds_store"
    /\ pending = <<>>
    /\ cpc = "idle"

====
